---- MODULE Spec2Model ----
(***************************************************************************)
(* google-auto-auth: the Auth class of src/index.js (lines 10-228).        *)
(*                                                                         *)
(* One Auth instance, its memoized fields and the asynchronous steps of    *)
(* its operations.  The external collaborators (google-auth-library, fs,   *)
(* the client's getAccessToken / authorize) are the environment: each of   *)
(* their callbacks is a step whose outcome is chosen nondeterministically. *)
(* sign, which src/ does not hold, follows the Signer of spec.md 4.4.       *)
(***************************************************************************)
EXTENDS Integers, Sequences, FiniteSets, TLC

(***************************************************************************)
(* Bounds of the model.                                                    *)
(***************************************************************************)
\* number of operations invoked on the instance
MaxCalls == 2
\* number of promises (resolution attempts) the instance may create
MaxRes == 2
\* number of client.authorize calls one getCredentials may issue
MaxAuthorize == 2
\* number of environment predicate calls made on the instance
MaxEnvCalls == 3

(***************************************************************************)
(* Values.                                                                 *)
(***************************************************************************)
\* JavaScript undefined, for string-valued fields
UNDEF == "undefined"

\* JavaScript truthiness of a string-or-undefined value
Truthy(x) == x # UNDEF /\ x # ""

\* config.scopes / client.scopes: undefined, or a list of scope strings
NoScopes == [def |-> FALSE, list |-> <<>>]
ScopeValues == {NoScopes, [def |-> TRUE, list |-> <<>>], [def |-> TRUE, list |-> <<"s">>]}

\* an Error object: kind identifies the failure, code is its .code property,
\* at is the resolution attempt (or call) that created it, so that two errors
\* of the same kind are still two objects
Err(kind, code, at) == [kind |-> kind, code |-> code, at |-> at]
NoErr == Err("none", UNDEF, 0)

\* how many options a configuration sets
NumSet(cfg) ==
  Cardinality({ f \in {"credentials", "keyFilename", "keyFile", "email", "projectId", "token"} :
                  cfg[f] # UNDEF })
    + (IF cfg.scopes.def THEN 1 ELSE 0)

\* the configurations an instance is constructed with
Configs ==
  { cfg \in [ credentials : {UNDEF, "creds"},
              keyFilename : {UNDEF, "a.json"},
              keyFile     : {UNDEF, "b.pem"},
              email       : {UNDEF, "e@x"},
              scopes      : ScopeValues,
              projectId   : {UNDEF, "cfg-project"},
              token       : {UNDEF, "custom token"} ] :
      \* up to two options of credential sourcing and scoping together
      /\ NumSet(cfg) <= 2
      \* email only matters next to a key file
      /\ (cfg.email # UNDEF) => (cfg.keyFilename # UNDEF \/ cfg.keyFile # UNDEF)
      \* projectId and token are taken on their own
      /\ (cfg.projectId # UNDEF \/ cfg.token # UNDEF) => NumSet(cfg) = 1 }

\* an auth client object of google-auth-library
NoClient ==
  [ made |-> FALSE, jwt |-> FALSE, scopedRequired |-> FALSE, projectId |-> UNDEF,
    scopes |-> NoScopes, email |-> UNDEF, key |-> UNDEF, hasAuthorize |-> FALSE,
    keyFile |-> UNDEF ]

\* the clients fromJSON / getApplicationDefault may hand to their callback:
\* a client has both email and key or neither; one that carries a key also
\* has authorize, and one that has authorize is taken with the plain scoping
\* and project settings
LibraryClients ==
  { cl \in { [NoClient EXCEPT !.made = TRUE, !.scopedRequired = sr, !.projectId = pid,
                              !.email = ek[1], !.key = ek[2], !.hasAuthorize = az] :
               sr \in BOOLEAN, pid \in {UNDEF, "client-project"},
               ek \in {<<UNDEF, UNDEF>>, <<"svc@x", "pkey">>}, az \in BOOLEAN } :
      /\ cl.key # UNDEF => cl.hasAuthorize
      /\ cl.hasAuthorize => (~cl.scopedRequired /\ cl.projectId = UNDEF) }

\* the project ID client creation may report as its third callback argument
ProjectIds == {UNDEF, "reported-project"}

\* a client that has authorize (a service account) comes with its project ID
ReportsProject(cl, reported) == cl.hasAuthorize => reported # UNDEF

Calls == 1..MaxCalls
Resolutions == 1..MaxRes

VARIABLES
  config,             \* this.config
  authClientPromise,  \* this.authClientPromise: 0 is null, else a promise id
  authClient,         \* this.authClient: 0 is null, else a client reference
  projectId,          \* this.projectId
  numRes,             \* promises created so far
  res,                \* the promises and the resolution attempt behind each
  clients,            \* heap of client objects, by reference
  calls,              \* the operations invoked, each with its position
  reqHeap,            \* heap of request-options objects
  hdrHeap,            \* heap of headers objects
  environment,        \* this.environment: the memoized flags
  procEnv,            \* process.env: which of the variables read are set
  envCalls,           \* the environment predicate calls, each with its position
  getEnv,             \* the getEnvironment call and its position
  signer              \* the sign operation and its position

\* the state the environment predicates work on
envVars == <<environment, procEnv, envCalls, getEnv>>

vars == <<config, authClientPromise, authClient, projectId, numRes, res,
          clients, calls, reqHeap, hdrHeap, envVars, signer>>

(***************************************************************************)
(* Records of the model.                                                   *)
(***************************************************************************)
\* a promise and the resolution attempt behind it: externals are the
\* collaborators it has turned to, path the file it asked fs to read,
\* contents what the file held, sourceErr the error a collaborator called
\* back with
NoRes ==
  [ stage |-> "unused", state |-> "none", client |-> 0, err |-> NoErr,
    externals |-> {}, reported |-> UNDEF, constructed |-> FALSE,
    path |-> UNDEF, contents |-> "none", sourceErr |-> NoErr ]

NoCreds == [client_email |-> UNDEF, private_key |-> UNDEF]

NoInput == [hasHeaders |-> FALSE, uri |-> UNDEF, a |-> UNDEF, Authorization |-> UNDEF]

NoCall ==
  [ op |-> "none", pc |-> "idle", res |-> 0, priorState |-> "none", fresh |-> FALSE,
    err |-> NoErr, client |-> 0, token |-> UNDEF, creds |-> NoCreds, pid |-> UNDEF,
    out |-> 0, input |-> NoInput, usedToken |-> UNDEF, tokenErr |-> NoErr,
    found |-> UNDEF, callbacks |-> 0, thrown |-> NoErr,
    authorizeCount |-> 0, tokenCount |-> 0, resolveCount |-> 0 ]

NoReq == [live |-> FALSE, uri |-> UNDEF, headers |-> 0]
NoHdr == [live |-> FALSE, a |-> UNDEF, Authorization |-> UNDEF]

\* the flags of this.environment; a flag is "undefined", "true" or "false"
Flags == {"IS_APP_ENGINE", "IS_CLOUD_FUNCTION", "IS_COMPUTE_ENGINE", "IS_CONTAINER_ENGINE"}

\* the flags whose predicate asks the network
NetworkFlags == {"IS_COMPUTE_ENGINE", "IS_CONTAINER_ENGINE"}

\* process.env, as far as the predicates read it: is the variable set
NoProcEnv == [GAE_SERVICE |-> FALSE, GAE_MODULE_NAME |-> FALSE, FUNCTION_NAME |-> FALSE]

EnvCalls == 1..MaxEnvCalls

\* the predicate calls of callers, and after them the four calls that
\* getEnvironment makes
EnvSlots == 1..(MaxEnvCalls + Cardinality(Flags))

\* the call getEnvironment makes for a flag, in the order of its task list
TaskSlot(flag) ==
  MaxEnvCalls + CASE flag = "IS_APP_ENGINE"     -> 1
                  [] flag = "IS_CLOUD_FUNCTION" -> 2
                  [] flag = "IS_COMPUTE_ENGINE" -> 3
                  [] OTHER                      -> 4

\* the getEnvironment call: callbacks counts the calls of its callback, err
\* and result are what the callback was given
NoGetEnv == [pc |-> "idle", callbacks |-> 0, err |-> NoErr, result |-> "none"]

\* the outcome of a metadata request: did it fail, and the metadata-flavor
\* header of the response
NoProbe == [failed |-> FALSE, header |-> "none"]

\* a predicate call: found is the flag as the call found it, probes and reads
\* count the metadata requests and the process.env reads it made, probe is
\* the outcome of its metadata request, err and result are what its callback
\* was given
NoEnvCall ==
  [ flag |-> "none", pc |-> "idle", found |-> "undefined", result |-> "undefined",
    err |-> NoErr, probes |-> 0, reads |-> 0, probe |-> NoProbe ]

\* the sign operation: creds is the record getCredentials handed over,
\* credsErr the error it handed over, path the branch taken, pid the project
\* ID the remote path read, call the
\* authorizeRequest call made for the signBlob request, sent the request
\* options given to the HTTP transport, response the signBlob response
NoSigner ==
  [ pc |-> "idle", data |-> UNDEF, creds |-> NoCreds, credsErr |-> NoErr,
    path |-> "none", pid |-> UNDEF, call |-> 0, sent |-> 0, err |-> NoErr, extra |-> UNDEF,
    signature |-> UNDEF, localSigns |-> 0, authorizations |-> 0, requests |-> 0,
    response |-> [status |-> 0, shape |-> "none", message |-> UNDEF, code |-> UNDEF,
                  property |-> UNDEF, signature |-> UNDEF] ]

(***************************************************************************)
(* constructor (src/index.js:11-16)                                        *)
(***************************************************************************)
Init ==
  /\ config \in Configs
  /\ authClientPromise = 0
  /\ authClient = 0
  /\ projectId = UNDEF
  /\ numRes = 0
  /\ res = [r \in Resolutions |-> NoRes]
  /\ clients = [r \in Resolutions |-> NoClient]
  /\ calls = [c \in Calls |-> NoCall]
  /\ reqHeap = [i \in 1..(2 * MaxCalls) |-> NoReq]
  /\ hdrHeap = [i \in 1..(2 * MaxCalls) |-> NoHdr]
  /\ environment = [f \in Flags |-> "undefined"]
  /\ procEnv = NoProcEnv
  /\ envCalls = [e \in EnvSlots |-> NoEnvCall]
  /\ getEnv = NoGetEnv
  /\ signer = NoSigner

(***************************************************************************)
(* getAuthClient (src/index.js:35-98)                                      *)
(***************************************************************************)
\* state of the memoized promise as a caller finds it
PromiseState == IF authClientPromise = 0 THEN "none" ELSE res[authClientPromise].state

\* PromiseChoice without the memoized promise: only the cached client is
\* looked at, so every call made before it is set runs the executor
PromiseChoice_NoSingleFlight(p, ac) ==
  IF ac # 0 THEN "resolved" ELSE "construct"

\* PromiseChoice that keeps the promise only while it is pending
PromiseChoice_DropSettled(p, ac) ==
  IF p # 0 /\ res[p].state = "pending" THEN "reuse" ELSE "construct"

\* lines 89-95: what getAuthClient does about the memoized promise p, given
\* this.authClient ac: keep it, wrap the cached client, or run the executor
PromiseChoice(p, ac) ==
  IF p # 0 THEN "reuse"
  ELSE IF ac # 0 THEN "resolved"
  ELSE "construct"

\* line 40: config.keyFilename || config.keyFile
KeyFileOf(cfg) == IF Truthy(cfg.keyFilename) THEN cfg.keyFilename ELSE cfg.keyFile

\* ResolvedPath that leaves the configured path as it is
ResolvedPath_Unresolved(keyFile) == keyFile

\* line 67: path.resolve(process.cwd(), keyFile)
ResolvedPath(keyFile) == "/cwd/" \o keyFile

\* SourceOf with the key file looked at before the inline credentials
SourceOf_KeyFileFirst(cfg) ==
  IF Truthy(KeyFileOf(cfg)) THEN "keyFile"
  ELSE IF Truthy(cfg.credentials) THEN "credentials"
  ELSE "default"

\* lines 64-86: which credential source the executor turns to
SourceOf(cfg) ==
  IF Truthy(cfg.credentials) THEN "credentials"
  ELSE IF Truthy(KeyFileOf(cfg)) THEN "keyFile"
  ELSE "default"

\* ScopeMissing without the test for an empty list
ScopeMissing_AbsentOnly(cfg, client) ==
  client.scopedRequired /\ ~cfg.scopes.def

\* lines 48-49: the client requires scoping and config.scopes is absent or empty
ScopeMissing(cfg, client) ==
  client.scopedRequired /\ (~cfg.scopes.def \/ Len(cfg.scopes.list) = 0)

\* line 59: projectId || authClient.projectId
ResolvedProjectId(cfg, reported, client) ==
  IF Truthy(reported) THEN reported ELSE client.projectId

\* lines 36-87: the promise executor, run synchronously by new Promise(...)
Executor(cfg) ==
  LET src == SourceOf(cfg) IN
  [ NoRes EXCEPT
      !.state = "pending",
      !.constructed = TRUE,
      !.stage = CASE src = "credentials" -> "fromJSON"
                  [] src = "keyFile"     -> "readFile"
                  [] OTHER               -> "default",
      !.externals = CASE src = "credentials" -> {"fromJSON(credentials)"}
                      [] src = "keyFile"     -> {"readFile"}
                      [] OTHER               -> {"getApplicationDefault"},
      !.path = IF src = "keyFile" THEN ResolvedPath(KeyFileOf(cfg)) ELSE UNDEF ]

\* lines 89-97: memoize the promise, then register the callback on it.
\* rec is the caller's record; the caller ends up waiting for promise r.
\* For a getAuthClient call of the user the record keeps what the call found
\* (priorState) and whether it ran the executor (fresh).
GetAuthClientBody(c, rec) ==
  LET choice == PromiseChoice(authClientPromise, authClient)
      r      == IF choice = "reuse" THEN authClientPromise ELSE numRes + 1
  IN /\ choice # "reuse" => numRes < MaxRes
     /\ IF choice = "reuse"
          THEN UNCHANGED <<numRes, authClientPromise, res>>
          ELSE /\ numRes' = numRes + 1
               /\ authClientPromise' = r
               /\ res' = [res EXCEPT ![r] =
                            IF choice = "resolved"
                              THEN [NoRes EXCEPT !.state = "fulfilled", !.stage = "done",
                                                 !.client = authClient]
                              ELSE Executor(config)]
     /\ calls' = [calls EXCEPT ![c] =
                    [rec EXCEPT !.pc = "waitClient", !.res = r,
                                !.priorState = IF rec.op = "getAuthClient"
                                                 THEN PromiseState ELSE "none",
                                !.fresh = (rec.op = "getAuthClient" /\ choice = "construct"),
                                !.resolveCount = rec.resolveCount + 1]]

\* AddScope that does not assign config.scopes to the client
AddScope_ScopesNotSet(base, r, err, client, reported) ==
  IF err # NoErr
    THEN /\ res' = [base EXCEPT ![r].state = "rejected", ![r].stage = "done", ![r].err = err]
         /\ UNCHANGED <<clients, authClient, projectId>>
    ELSE IF ScopeMissing(config, client)
      THEN /\ res' = [base EXCEPT ![r].state = "rejected", ![r].stage = "done",
                                 ![r].err = Err("Scopes are required for this request.",
                                                "MISSING_SCOPE", r),
                                 ![r].reported = reported]
           /\ clients' = [clients EXCEPT ![r] = client]
           /\ UNCHANGED <<authClient, projectId>>
      ELSE /\ clients' = [clients EXCEPT ![r] = client]
           /\ authClient' = r
           /\ projectId' = ResolvedProjectId(config, reported, client)
           /\ res' = [base EXCEPT ![r].state = "fulfilled", ![r].stage = "done",
                                 ![r].client = r, ![r].reported = reported]

\* AddScope that stores the client in this.authClient before it looks at the
\* scopes
AddScope_ClientBeforeCheck(base, r, err, client, reported) ==
  IF err # NoErr
    THEN /\ res' = [base EXCEPT ![r].state = "rejected", ![r].stage = "done", ![r].err = err]
         /\ UNCHANGED <<clients, authClient, projectId>>
    ELSE IF ScopeMissing(config, client)
      THEN /\ res' = [base EXCEPT ![r].state = "rejected", ![r].stage = "done",
                                 ![r].err = Err("Scopes are required for this request.",
                                                "MISSING_SCOPE", r),
                                 ![r].reported = reported]
           /\ clients' = [clients EXCEPT ![r] = client]
           /\ authClient' = r
           /\ UNCHANGED <<projectId>>
      ELSE /\ clients' = [clients EXCEPT ![r] = [client EXCEPT !.scopes = config.scopes]]
           /\ authClient' = r
           /\ projectId' = ResolvedProjectId(config, reported, client)
           /\ res' = [base EXCEPT ![r].state = "fulfilled", ![r].stage = "done",
                                 ![r].client = r, ![r].reported = reported]

\* AddScope that stores the project ID before it looks at the scopes
AddScope_ProjectIdBeforeCheck(base, r, err, client, reported) ==
  IF err # NoErr
    THEN /\ res' = [base EXCEPT ![r].state = "rejected", ![r].stage = "done", ![r].err = err]
         /\ UNCHANGED <<clients, authClient, projectId>>
    ELSE IF ScopeMissing(config, client)
      THEN /\ res' = [base EXCEPT ![r].state = "rejected", ![r].stage = "done",
                                 ![r].err = Err("Scopes are required for this request.",
                                                "MISSING_SCOPE", r),
                                 ![r].reported = reported]
           /\ clients' = [clients EXCEPT ![r] = client]
           /\ projectId' = ResolvedProjectId(config, reported, client)
           /\ UNCHANGED <<authClient>>
      ELSE /\ clients' = [clients EXCEPT ![r] = [client EXCEPT !.scopes = config.scopes]]
           /\ authClient' = r
           /\ projectId' = ResolvedProjectId(config, reported, client)
           /\ res' = [base EXCEPT ![r].state = "fulfilled", ![r].stage = "done",
                                 ![r].client = r, ![r].reported = reported]

\* AddScope that returns on missing scopes without rejecting the promise
AddScope_NoReject(base, r, err, client, reported) ==
  IF err # NoErr
    THEN /\ res' = [base EXCEPT ![r].state = "rejected", ![r].stage = "done", ![r].err = err]
         /\ UNCHANGED <<clients, authClient, projectId>>
    ELSE IF ScopeMissing(config, client)
      THEN /\ res' = [base EXCEPT ![r].stage = "done", ![r].reported = reported]
           /\ clients' = [clients EXCEPT ![r] = client]
           /\ UNCHANGED <<authClient, projectId>>
      ELSE /\ clients' = [clients EXCEPT ![r] = [client EXCEPT !.scopes = config.scopes]]
           /\ authClient' = r
           /\ projectId' = ResolvedProjectId(config, reported, client)
           /\ res' = [base EXCEPT ![r].state = "fulfilled", ![r].stage = "done",
                                 ![r].client = r, ![r].reported = reported]

\* lines 42-62: addScope(err, authClient, projectId) of resolution r; base is
\* the promise table the settlement is applied to
AddScope(base, r, err, client, reported) ==
  IF err # NoErr
    THEN /\ res' = [base EXCEPT ![r].state = "rejected", ![r].stage = "done", ![r].err = err]
         /\ UNCHANGED <<clients, authClient, projectId>>
    ELSE IF ScopeMissing(config, client)
      THEN /\ res' = [base EXCEPT ![r].state = "rejected", ![r].stage = "done",
                                 ![r].err = Err("Scopes are required for this request.",
                                                "MISSING_SCOPE", r),
                                 ![r].reported = reported]
           /\ clients' = [clients EXCEPT ![r] = client]
           /\ UNCHANGED <<authClient, projectId>>
      ELSE /\ clients' = [clients EXCEPT ![r] = [client EXCEPT !.scopes = config.scopes]]
           /\ authClient' = r
           /\ projectId' = ResolvedProjectId(config, reported, client)
           /\ res' = [base EXCEPT ![r].state = "fulfilled", ![r].stage = "done",
                                 ![r].client = r, ![r].reported = reported]

\* the next operation is invoked on call slot c
NextCall(c) == calls[c].pc = "idle" /\ \A d \in Calls : d < c => calls[d].pc # "idle"

\* GetAuthClient that runs the callback at once when the memoized promise is
\* already fulfilled
GetAuthClient_SyncWhenSettled(c) ==
  /\ NextCall(c)
  /\ IF PromiseState = "fulfilled"
       THEN /\ calls' = [calls EXCEPT ![c] =
                          [NoCall EXCEPT !.op = "getAuthClient", !.pc = "done",
                                         !.res = authClientPromise, !.priorState = "fulfilled",
                                         !.client = res[authClientPromise].client,
                                         !.callbacks = 1, !.resolveCount = 1]]
            /\ UNCHANGED <<numRes, authClientPromise, res>>
       ELSE GetAuthClientBody(c, [NoCall EXCEPT !.op = "getAuthClient"])
  /\ UNCHANGED <<envVars, signer, config, authClient, projectId, clients, reqHeap, hdrHeap>>

\* auth.getAuthClient(callback)
GetAuthClient(c) ==
  /\ NextCall(c)
  /\ GetAuthClientBody(c, [NoCall EXCEPT !.op = "getAuthClient"])
  /\ UNCHANGED <<envVars, signer, config, authClient, projectId, clients, reqHeap, hdrHeap>>

\* googleAuth.fromJSON calls back (lines 65, 76)
FromJSONCallback(r) ==
  /\ res[r].stage = "fromJSON"
  /\ \E ok \in BOOLEAN, cl \in LibraryClients, reported \in ProjectIds :
       IF ok THEN /\ ReportsProject(cl, reported)
                  /\ AddScope(res, r, NoErr, cl, reported)
             ELSE /\ cl = CHOOSE x \in LibraryClients : TRUE
                  /\ reported = UNDEF
                  /\ AddScope([res EXCEPT ![r].sourceErr = Err("fromJSON failed", UNDEF, r)],
                              r, Err("fromJSON failed", UNDEF, r), cl, reported)
  /\ UNCHANGED <<envVars, signer, config, authClientPromise, numRes, calls, reqHeap, hdrHeap>>

\* googleAuth.getApplicationDefault calls back (line 85)
GetApplicationDefaultCallback(r) ==
  /\ res[r].stage = "default"
  /\ \E ok \in BOOLEAN, cl \in LibraryClients, reported \in ProjectIds :
       IF ok THEN /\ ReportsProject(cl, reported)
                  /\ AddScope(res, r, NoErr, cl, reported)
             ELSE /\ cl = CHOOSE x \in LibraryClients : TRUE
                  /\ reported = UNDEF
                  /\ AddScope([res EXCEPT ![r].sourceErr =
                                            Err("getApplicationDefault failed", UNDEF, r)],
                              r, Err("getApplicationDefault failed", UNDEF, r), cl, reported)
  /\ UNCHANGED <<envVars, signer, config, authClientPromise, numRes, calls, reqHeap, hdrHeap>>

\* new googleAuth.JWT() with keyFile and email set (lines 78-80)
JWTClient(cfg, sr) ==
  [ NoClient EXCEPT !.made = TRUE, !.jwt = TRUE, !.scopedRequired = sr,
                    !.hasAuthorize = TRUE,
                    !.keyFile = ResolvedPath(KeyFileOf(cfg)), !.email = cfg.email ]

\* ReadFileCallback without the test for a read error: the missing contents
\* do not parse, and the JWT client is built
ReadFileCallback_IgnoreError(r) ==
  /\ res[r].stage = "readFile"
  /\ \E outcome \in {"error", "json", "throw", "other"}, sr \in BOOLEAN :
       CASE outcome = "json" ->
              /\ sr = FALSE
              /\ res' = [res EXCEPT ![r].stage = "fromJSON", ![r].contents = "json",
                                    ![r].externals = @ \cup {"fromJSON(file)"}]
              /\ UNCHANGED <<clients, authClient, projectId>>
         [] outcome = "throw" ->
              AddScope([res EXCEPT ![r].externals = @ \cup {"fromJSON(file)", "JWT"},
                                   ![r].contents = "json",
                                   ![r].sourceErr = Err("fromJSON threw", UNDEF, r)],
                       r, NoErr, JWTClient(config, sr), UNDEF)
         [] OTHER ->
              AddScope([res EXCEPT ![r].externals = @ \cup {"JWT"},
                                   ![r].contents = IF outcome = "error" THEN "none" ELSE "other",
                                   ![r].sourceErr = IF outcome = "error"
                                                      THEN Err("ENOENT", "ENOENT", r) ELSE NoErr],
                       r, NoErr, JWTClient(config, sr), UNDEF)
  /\ UNCHANGED <<envVars, signer, config, authClientPromise, numRes, calls, reqHeap, hdrHeap>>

\* fs.readFile calls back (lines 69-83): an error, JSON contents, or other
\* contents. The try block of lines 75-77 holds the call of fromJSON as well
\* as JSON.parse, so an exception thrown by fromJSON before it calls back is
\* caught by line 77 and the JWT client is built (outcome "throw")
ReadFileCallback(r) ==
  /\ res[r].stage = "readFile"
  /\ \E outcome \in {"error", "json", "throw", "other"}, sr \in BOOLEAN :
       CASE outcome = "error" ->
              /\ sr = FALSE
              /\ res' = [res EXCEPT ![r].state = "rejected", ![r].stage = "done",
                                    ![r].sourceErr = Err("ENOENT", "ENOENT", r),
                                    ![r].err = Err("ENOENT", "ENOENT", r)]
              /\ UNCHANGED <<clients, authClient, projectId>>
         [] outcome = "json" ->
              /\ sr = FALSE
              /\ res' = [res EXCEPT ![r].stage = "fromJSON", ![r].contents = "json",
                                    ![r].externals = @ \cup {"fromJSON(file)"}]
              /\ UNCHANGED <<clients, authClient, projectId>>
         [] outcome = "throw" ->
              AddScope([res EXCEPT ![r].externals = @ \cup {"fromJSON(file)", "JWT"},
                                   ![r].contents = "json",
                                   ![r].sourceErr = Err("fromJSON threw", UNDEF, r)],
                       r, NoErr, JWTClient(config, sr), UNDEF)
         [] OTHER ->
              AddScope([res EXCEPT ![r].externals = @ \cup {"JWT"}, ![r].contents = "other"],
                       r, NoErr, JWTClient(config, sr), UNDEF)
  /\ UNCHANGED <<envVars, signer, config, authClientPromise, numRes, calls, reqHeap, hdrHeap>>

\* the promise a waiting call is registered on
PromiseOf(c) == res[calls[c].res]

Settled(p) == p.state \in {"fulfilled", "rejected"}

(***************************************************************************)
(* getToken (src/index.js:160-169)                                         *)
(***************************************************************************)
\* GetToken that keeps the last token it was given and hands it out again
GetToken_CachedToken(c) ==
  /\ NextCall(c)
  /\ IF \E d \in Calls : calls[d].op = "getToken" /\ calls[d].token # UNDEF
       THEN /\ calls' = [calls EXCEPT ![c] =
                          [NoCall EXCEPT !.op = "getToken", !.pc = "done", !.client = authClient,
                                         !.token = "abctoken"]]
            /\ UNCHANGED <<numRes, authClientPromise, res>>
       ELSE GetAuthClientBody(c, [NoCall EXCEPT !.op = "getToken"])
  /\ UNCHANGED <<envVars, signer, config, authClient, projectId, clients, reqHeap, hdrHeap>>

\* auth.getToken(callback)
GetToken(c) ==
  /\ NextCall(c)
  /\ GetAuthClientBody(c, [NoCall EXCEPT !.op = "getToken"])
  /\ UNCHANGED <<envVars, signer, config, authClient, projectId, clients, reqHeap, hdrHeap>>

(***************************************************************************)
(* authorizeRequest (src/index.js:18-33)                                   *)
(***************************************************************************)
\* the request options a caller may pass: with or without a headers object,
\* which may already carry an Authorization header
Inputs ==
  { [hasHeaders |-> FALSE, uri |-> "a", a |-> UNDEF, Authorization |-> UNDEF],
    [hasHeaders |-> TRUE,  uri |-> "a", a |-> "b",   Authorization |-> "old"] }

\* line 27: `Bearer ${token}`
Bearer(token) == "Bearer " \o token

\* place of the caller's objects and of the objects authorizeRequest creates
InRef(c) == c
OutRef(c) == MaxCalls + c

\* AuthorizedReqOpts with a shallow copy: the caller's headers object is
\* shared with the copy and written to
AuthorizedReqOpts_Shallow(rh, hh, c, token) ==
  LET in  == rh[InRef(c)]
      ref == IF in.headers = 0 THEN OutRef(c) ELSE in.headers
  IN [ req |-> [rh EXCEPT ![OutRef(c)] = [in EXCEPT !.live = TRUE, !.headers = ref]],
       hdr |-> [hh EXCEPT ![ref] = [hh[ref] EXCEPT !.live = TRUE,
                                                   !.Authorization = Bearer(token)]] ]

\* lines 25-29: Object.assign({}, reqOpts, {headers: Object.assign({},
\* reqOpts.headers, {Authorization})}): the heaps after the two copies
AuthorizedReqOpts(rh, hh, c, token) ==
  LET in  == rh[InRef(c)]
      old == IF in.headers = 0 THEN NoHdr ELSE hh[in.headers]
  IN [ req |-> [rh EXCEPT ![OutRef(c)] = [in EXCEPT !.live = TRUE, !.headers = OutRef(c)]],
       hdr |-> [hh EXCEPT ![OutRef(c)] = [old EXCEPT !.live = TRUE,
                                                     !.Authorization = Bearer(token)]] ]

\* auth.authorizeRequest(reqOpts, callback): the caller's objects enter the heap
AuthorizeRequestBody(c, in) ==
  /\ reqHeap' = [reqHeap EXCEPT ![InRef(c)] =
                   [live |-> TRUE, uri |-> in.uri,
                    headers |-> IF in.hasHeaders THEN InRef(c) ELSE 0]]
  /\ hdrHeap' = [hdrHeap EXCEPT ![InRef(c)] =
                   IF in.hasHeaders
                     THEN [live |-> TRUE, a |-> in.a, Authorization |-> in.Authorization]
                     ELSE NoHdr]
  \* line 19: this.getToken(...), which is this.getAuthClient(...) (line 161)
  /\ GetAuthClientBody(c, [NoCall EXCEPT !.op = "authorizeRequest", !.input = in])

\* a caller invokes authorizeRequest with one of the request options
AuthorizeRequest(c) ==
  /\ NextCall(c)
  /\ \E in \in Inputs : AuthorizeRequestBody(c, in)
  /\ UNCHANGED <<envVars, signer, config, authClient, projectId, clients>>

(***************************************************************************)
(* getCredentials (src/index.js:100-129)                                   *)
(***************************************************************************)
\* auth.getCredentials(callback)
GetCredentials(c) ==
  /\ NextCall(c)
  /\ GetAuthClientBody(c, [NoCall EXCEPT !.op = "getCredentials"])
  /\ UNCHANGED <<envVars, signer, config, authClient, projectId, clients, reqHeap, hdrHeap>>

\* HasEmailAndKey that finds no client to carry its email and key
HasEmailAndKey_Never(client) == FALSE

\* line 107: client.email && client.key
HasEmailAndKey(client) == Truthy(client.email) /\ Truthy(client.key)

\* HasAuthorize that takes every client to have an authorize method
HasAuthorize_Always(client) == TRUE

\* line 115: client.authorize
HasAuthorize(client) == client.hasAuthorize

(***************************************************************************)
(* getProjectId (src/index.js:142-158)                                     *)
(***************************************************************************)
\* GetProjectId without the test of this.projectId
GetProjectId_AlwaysResolve(c) ==
  /\ NextCall(c)
  /\ GetAuthClientBody(c, [NoCall EXCEPT !.op = "getProjectId", !.found = projectId])
  /\ UNCHANGED <<envVars, signer, config, authClient, projectId, clients, reqHeap, hdrHeap>>

\* GetProjectId that takes the project ID to be known once the client is
GetProjectId_KnownWithClient(c) ==
  /\ NextCall(c)
  /\ IF authClient # 0
       THEN /\ calls' = [calls EXCEPT ![c] = [NoCall EXCEPT !.op = "getProjectId",
                                                           !.found = projectId,
                                                           !.pc = "immediate"]]
            /\ UNCHANGED <<numRes, authClientPromise, res>>
       ELSE GetAuthClientBody(c, [NoCall EXCEPT !.op = "getProjectId", !.found = projectId])
  /\ UNCHANGED <<envVars, signer, config, authClient, projectId, clients, reqHeap, hdrHeap>>

\* auth.getProjectId(callback); found is this.projectId as the call finds it
GetProjectId(c) ==
  /\ NextCall(c)
  /\ IF Truthy(projectId)
       THEN /\ calls' = [calls EXCEPT ![c] = [NoCall EXCEPT !.op = "getProjectId",
                                                           !.found = projectId,
                                                           !.pc = "immediate"]]
            /\ UNCHANGED <<numRes, authClientPromise, res>>
       ELSE GetAuthClientBody(c, [NoCall EXCEPT !.op = "getProjectId", !.found = projectId])
  /\ UNCHANGED <<envVars, signer, config, authClient, projectId, clients, reqHeap, hdrHeap>>

\* Immediate that also stores the project ID in the configuration
Immediate_WritesConfig(c) ==
  /\ calls[c].pc = "immediate"
  /\ calls' = [calls EXCEPT ![c].pc = "done", ![c].pid = projectId]
  /\ config' = [config EXCEPT !.projectId = projectId]
  /\ UNCHANGED <<envVars, signer, authClientPromise, authClient, projectId, numRes, res, clients,
                 reqHeap, hdrHeap>>

\* lines 144-146: the setImmediate callback reads this.projectId when it runs
Immediate(c) ==
  /\ calls[c].pc = "immediate"
  /\ calls' = [calls EXCEPT ![c].pc = "done", ![c].pid = projectId]
  /\ UNCHANGED <<envVars, signer, config, authClientPromise, authClient, projectId, numRes, res, clients,
                 reqHeap, hdrHeap>>

(***************************************************************************)
(* The callback registered on the promise runs (line 97), in the body of   *)
(* the operation that registered it.                                       *)
(***************************************************************************)
Deliver(c) ==
  LET p    == PromiseOf(c)
      call == calls[c]
      fail == [call EXCEPT !.pc = "done", !.err = p.err]
  IN
  /\ call.pc = "waitClient"
  /\ Settled(p)
  /\ CASE call.op = "getAuthClient" ->
            \* the callback of the caller runs: callback(null, client) from
            \* then, callback(err) from catch
            calls' = [calls EXCEPT ![c] =
                        IF p.state = "rejected"
                          THEN [fail EXCEPT !.callbacks = @ + 1]
                          ELSE [call EXCEPT !.pc = "done", !.client = p.client,
                                            !.callbacks = @ + 1]]
       [] call.op \in {"getToken", "authorizeRequest"} ->
            \* lines 161-168: client.getAccessToken(callback)
            calls' = [calls EXCEPT ![c] =
                        IF p.state = "rejected" THEN fail
                        ELSE [call EXCEPT !.pc = "waitToken", !.client = p.client,
                                          !.tokenCount = call.tokenCount + 1]]
       [] call.op = "getCredentials" ->
            \* lines 101-127
            IF p.state = "rejected" THEN calls' = [calls EXCEPT ![c] = fail]
            ELSE IF HasEmailAndKey(clients[p.client])
              THEN calls' = [calls EXCEPT ![c] =
                               [call EXCEPT !.pc = "done", !.client = p.client,
                                            !.creds = [client_email |-> clients[p.client].email,
                                                       private_key |-> clients[p.client].key]]]
            ELSE IF ~HasAuthorize(clients[p.client])
              THEN calls' = [calls EXCEPT ![c] =
                               [call EXCEPT !.pc = "done", !.client = p.client,
                                   !.err = Err("Could not get credentials without a JSON, pem, or p12 keyfile.",
                                               UNDEF, c)]]
            ELSE \* line 120: client.authorize(...); the model stops at MaxAuthorize
                 /\ call.authorizeCount < MaxAuthorize
                 /\ calls' = [calls EXCEPT ![c] =
                                [call EXCEPT !.pc = "waitAuthorize", !.client = p.client,
                                             !.authorizeCount = call.authorizeCount + 1]]
       [] OTHER ->
            \* getProjectId, lines 150-157
            calls' = [calls EXCEPT ![c] =
                        IF p.state = "rejected" THEN fail
                        ELSE [call EXCEPT !.pc = "done", !.pid = projectId]]
  /\ UNCHANGED <<envVars, signer, config, authClientPromise, authClient, projectId, numRes, res, clients,
                 reqHeap, hdrHeap>>

\* line 97, then(callback.bind(null, null)): the callback of a getAuthClient
\* caller is run with the client and throws, which rejects the promise that
\* then returned
DeliverThrowing(c) ==
  LET p == PromiseOf(c) IN
  /\ calls[c].pc = "waitClient"
  /\ calls[c].op = "getAuthClient"
  /\ p.state = "fulfilled"
  /\ calls' = [calls EXCEPT ![c] =
                 [calls[c] EXCEPT !.pc = "waitCatch", !.client = p.client,
                                  !.callbacks = @ + 1,
                                  !.thrown = Err("callback threw", UNDEF, c)]]
  /\ UNCHANGED <<envVars, signer, config, authClientPromise, authClient, projectId, numRes, res,
                 clients, reqHeap, hdrHeap>>

\* line 97, .catch(callback): the rejection of the promise that then
\* returned reaches catch, which runs the callback with what it threw
CatchCallback(c) ==
  /\ calls[c].pc = "waitCatch"
  /\ calls' = [calls EXCEPT ![c] =
                 [calls[c] EXCEPT !.pc = "done", !.err = calls[c].thrown,
                                  !.callbacks = @ + 1]]
  /\ UNCHANGED <<envVars, signer, config, authClientPromise, authClient, projectId, numRes, res,
                 clients, reqHeap, hdrHeap>>

\* GetAccessTokenCallback where authorizeRequest does not look at the error
\* and builds the options with the token it was given
GetAccessTokenCallback_IgnoreError(c) ==
  LET call == calls[c] IN
  /\ call.pc = "waitToken"
  /\ \E outcome \in {"error", "abctoken"} :
       LET error == IF outcome = "error" THEN Err("getAccessToken failed", UNDEF, c)
                    ELSE NoErr
           token == IF outcome = "error" THEN UNDEF ELSE outcome
           heaps == AuthorizedReqOpts(reqHeap, hdrHeap, c, token)
       IN IF call.op = "getToken"
            THEN /\ calls' = [calls EXCEPT ![c] =
                               [call EXCEPT !.pc = "done", !.token = token,
                                            !.tokenErr = error, !.err = error]]
                 /\ UNCHANGED <<reqHeap, hdrHeap>>
            ELSE /\ reqHeap' = heaps.req
                 /\ hdrHeap' = heaps.hdr
                 /\ calls' = [calls EXCEPT ![c] =
                                [call EXCEPT !.pc = "done", !.usedToken = token,
                                             !.tokenErr = error, !.out = OutRef(c)]]
  /\ UNCHANGED <<envVars, signer, config, authClientPromise, authClient, projectId, numRes,
                 res, clients>>

\* client.getAccessToken calls back, with an error or a token: getToken hands
\* the outcome to its caller (line 167), authorizeRequest returns the error
\* or builds the authorized options (lines 19-32)
GetAccessTokenCallback(c) ==
  LET call == calls[c] IN
  /\ call.pc = "waitToken"
  /\ \E outcome \in {"error", "abctoken"} :
       IF outcome = "error"
         THEN /\ calls' = [calls EXCEPT ![c] =
                            [call EXCEPT !.pc = "done",
                                         !.tokenErr = Err("getAccessToken failed", UNDEF, c),
                                         !.err = Err("getAccessToken failed", UNDEF, c)]]
              /\ UNCHANGED <<reqHeap, hdrHeap>>
         ELSE IF call.op = "getToken"
           THEN /\ calls' = [calls EXCEPT ![c] = [call EXCEPT !.pc = "done", !.token = outcome]]
                /\ UNCHANGED <<reqHeap, hdrHeap>>
           ELSE LET heaps == AuthorizedReqOpts(reqHeap, hdrHeap, c, outcome) IN
                /\ reqHeap' = heaps.req
                /\ hdrHeap' = heaps.hdr
                /\ calls' = [calls EXCEPT ![c] =
                               [call EXCEPT !.pc = "done", !.usedToken = outcome,
                                            !.out = OutRef(c)]]
  /\ UNCHANGED <<envVars, signer, config, authClientPromise, authClient, projectId, numRes,
                 res, clients>>

\* client.authorize calls back (lines 120-127).  A JWT client has its email
\* and key once authorized; other clients need not.
AuthorizeCallback(c) ==
  LET call == calls[c] IN
  /\ call.pc = "waitAuthorize"
  /\ \E outcome \in {"error", "ok", "okWithKey"} :
       CASE outcome = "error" ->
              /\ calls' = [calls EXCEPT ![c] =
                             [call EXCEPT !.pc = "done",
                                          !.err = Err("authorize failed", UNDEF, c)]]
              /\ UNCHANGED <<clients, numRes, authClientPromise, res>>
         [] outcome = "ok" ->
              /\ UNCHANGED clients
              /\ GetAuthClientBody(c, call)
         [] OTHER ->
              /\ clients' = [clients EXCEPT ![call.client].key = "pkey",
                                            ![call.client].email =
                                               IF Truthy(@) THEN @ ELSE "svc@x"]
              /\ GetAuthClientBody(c, call)
  /\ UNCHANGED <<envVars, signer, config, authClient, projectId, reqHeap, hdrHeap>>

(***************************************************************************)
(* sign (spec 4.4, Signer).  getCredentials is taken by its interface: it  *)
(* calls back with an error or with a credentials record.  Request         *)
(* authorization is the authorizeRequest operation above.                  *)
(***************************************************************************)
\* the data a caller asks to have signed
Data == {"hello"}

\* the records getCredentials may hand over: {client_email, private_key?}
CredentialRecords == [client_email : {UNDEF, "e"}, private_key : {UNDEF, "k"}]

\* the RSA-SHA256 signature of data under a private key
Signature(key, data) == "RSA-SHA256(" \o key \o "," \o data \o ")"

\* the signBlob endpoint of a service account
SignBlobUri(pid, email) ==
  "https://iam.googleapis.com/v1/projects/" \o pid \o "/serviceAccounts/" \o email
    \o ":signBlob"

\* the responses of the signBlob endpoint: a signature, an error object with
\* a message and extra fields, or a bare string
Responses ==
  { [status |-> 200, shape |-> "json", message |-> UNDEF, code |-> UNDEF,
     property |-> UNDEF, signature |-> "sig"],
    [status |-> 400, shape |-> "object", message |-> "bad", code |-> "7",
     property |-> UNDEF, signature |-> UNDEF],
    [status |-> 403, shape |-> "object", message |-> "Inner error", code |-> UNDEF,
     property |-> "Inner property", signature |-> UNDEF],
    [status |-> 400, shape |-> "string", message |-> "String error message", code |-> UNDEF,
     property |-> UNDEF, signature |-> UNDEF] }

\* the response status is outside 200..299
Non2xx(status) == status < 200 \/ status >= 300

\* SignPath that sends every record to the signBlob API
SignPath_AlwaysRemote(rec) == "remote"

\* the branch sign takes on a credentials record
SignPath(rec) == IF Truthy(rec.private_key) THEN "local" ELSE "remote"

\* RemotePrecondition without the check of the client email
RemotePrecondition_NoEmailCheck(pid, rec) ==
  IF ~Truthy(pid) THEN "MissingProjectId" ELSE "ok"

\* what the remote path refuses to start with
RemotePrecondition(pid, rec) ==
  IF ~Truthy(pid) THEN "MissingProjectId"
  ELSE IF ~Truthy(rec.client_email) THEN "MissingClientEmail"
  ELSE "ok"

\* auth.sign(data, callback): step 1, ask for the credentials record
Sign ==
  /\ signer.pc = "idle"
  /\ \E data \in Data :
       signer' = [NoSigner EXCEPT !.pc = "waitCredentials", !.data = data]
  /\ UNCHANGED <<envVars, config, authClientPromise, authClient, projectId, numRes, res,
                 clients, calls, reqHeap, hdrHeap>>

\* SignOutcome without the test for an error of getCredentials
SignOutcome_NoErrorCheck(failed, rec) == SignPath(rec)

\* how sign goes on when getCredentials calls back: with its error, or on
\* one of the two paths
SignOutcome(failed, rec) == IF failed THEN "failed" ELSE SignPath(rec)

\* getCredentials calls back to sign: on an error sign fails with it; else
\* step 2, the branch on the private key.  The local path signs at once;
\* the remote path reads the project ID, checks its preconditions and asks
\* for the signBlob request to be authorized.
SignCredentialsCallback ==
  /\ signer.pc = "waitCredentials"
  /\ \E failed \in BOOLEAN, rec \in CredentialRecords, keyOk \in BOOLEAN :
       LET error   == IF failed THEN Err("getCredentials failed", UNDEF, 0) ELSE NoErr
           got     == IF failed THEN NoCreds ELSE rec
           outcome == SignOutcome(failed, got)
           base    == [signer EXCEPT !.credsErr = error, !.creds = got]
       IN
       CASE outcome = "failed" ->
              /\ signer' = [base EXCEPT !.pc = "done", !.err = error]
              /\ UNCHANGED <<authClientPromise, numRes, res, calls, reqHeap, hdrHeap>>
         [] outcome = "local" ->
              /\ signer' = [base EXCEPT
                              !.pc = "done", !.path = "local", !.localSigns = @ + 1,
                              !.signature = IF keyOk THEN Signature(got.private_key, signer.data)
                                            ELSE UNDEF,
                              !.err = IF keyOk THEN NoErr
                                      ELSE Err("local signing failed", UNDEF, 0)]
              /\ UNCHANGED <<authClientPromise, numRes, res, calls, reqHeap, hdrHeap>>
         [] OTHER ->
              IF RemotePrecondition(projectId, got) # "ok"
                THEN /\ signer' = [base EXCEPT
                                     !.pc = "done", !.path = "remote", !.pid = projectId,
                                     !.err = Err(RemotePrecondition(projectId, got), UNDEF, 0)]
                     /\ UNCHANGED <<authClientPromise, numRes, res, calls, reqHeap, hdrHeap>>
                ELSE \E c \in Calls :
                       /\ NextCall(c)
                       /\ AuthorizeRequestBody(c, [NoInput EXCEPT
                                 !.uri = SignBlobUri(projectId, got.client_email)])
                       /\ signer' = [base EXCEPT !.pc = "waitAuthorize", !.path = "remote",
                                                 !.pid = projectId, !.call = c,
                                                 !.authorizations = @ + 1]
  /\ UNCHANGED <<envVars, config, authClient, projectId, clients>>

\* SentOptions with the request options sign built, not the authorized ones
SentOptions_Original(c) == InRef(c)

\* the request options sign gives to the HTTP transport: the ones
\* authorizeRequest handed back
SentOptions(c) == calls[c].out

\* RemoteSigningError that keeps only the message of an error object
RemoteSigningError_MessageOnly(resp) ==
  [err |-> Err(resp.message, UNDEF, 0), extra |-> UNDEF]

\* the error sign makes of a non-2xx response
RemoteSigningError(resp) ==
  IF resp.shape = "object"
    THEN [err |-> Err(resp.message, resp.code, 0), extra |-> resp.property]
    ELSE [err |-> Err(resp.message, UNDEF, 0), extra |-> UNDEF]

\* authorizeRequest calls back to sign: on an error sign fails with it, else
\* the authorized options go to the HTTP transport
SignAuthorized ==
  LET call == calls[signer.call] IN
  /\ signer.pc = "waitAuthorize"
  /\ call.pc = "done"
  /\ signer' = IF call.err # NoErr
                 THEN [signer EXCEPT !.pc = "done", !.err = call.err]
                 ELSE [signer EXCEPT !.pc = "waitResponse", !.sent = SentOptions(signer.call),
                                     !.requests = @ + 1]
  /\ UNCHANGED <<envVars, config, authClientPromise, authClient, projectId, numRes, res,
                 clients, calls, reqHeap, hdrHeap>>

\* the HTTP transport calls back with a transport error or with a response
SignBlobResponse ==
  /\ signer.pc = "waitResponse"
  /\ \E failed \in BOOLEAN, resp \in Responses :
       signer' =
         IF failed
           THEN [signer EXCEPT !.pc = "done", !.err = Err("request failed", UNDEF, 0)]
         ELSE IF Non2xx(resp.status)
           THEN [signer EXCEPT !.pc = "done", !.response = resp,
                               !.err = RemoteSigningError(resp).err,
                               !.extra = RemoteSigningError(resp).extra]
         ELSE [signer EXCEPT !.pc = "done", !.response = resp,
                             !.signature = resp.signature]
  /\ UNCHANGED <<envVars, config, authClientPromise, authClient, projectId, numRes, res,
                 clients, calls, reqHeap, hdrHeap>>

(***************************************************************************)
(* The environment predicates (src/index.js:171-227)                       *)
(***************************************************************************)
\* a JavaScript boolean as a flag value
BoolStr(b) == IF b THEN "true" ELSE "false"

\* the values process.env may take
ProcEnvs == [GAE_SERVICE : BOOLEAN, GAE_MODULE_NAME : BOOLEAN, FUNCTION_NAME : BOOLEAN]

\* lines 175, 187, 198, 215: typeof env.FLAG !== 'undefined'
Memoized(value) == value # "undefined"

\* lines 176 and 188: the flag as process.env determines it
FromProcEnv(flag, pe) ==
  IF flag = "IS_APP_ENGINE" THEN BoolStr(pe.GAE_SERVICE \/ pe.GAE_MODULE_NAME)
  ELSE BoolStr(pe.FUNCTION_NAME)

\* FromProbe that does not look at the metadata-flavor header
FromProbe_IgnoreHeader(flag, failed, header) ==
  BoolStr(~failed)

\* lines 206 and 222: the flag as the outcome of the metadata request
\* determines it
FromProbe(flag, failed, header) ==
  IF flag = "IS_COMPUTE_ENGINE" THEN BoolStr(~failed /\ header = "Google")
  ELSE BoolStr(~failed)

\* the next predicate call is made on slot e
NextEnvCall(e) ==
  envCalls[e].pc = "idle" /\ \A d \in EnvCalls : d < e => envCalls[d].pc # "idle"

\* a predicate call as it stands when the predicate returns: isAppEngine and
\* isCloudFunction (lines 171-193) leave all the work to the setImmediate
\* callback; isComputeEngine and isContainerEngine (lines 195-227) hand a
\* determined flag over in a setImmediate callback and else make the
\* metadata request
Started(flag) ==
  IF flag \in NetworkFlags /\ ~Memoized(environment[flag])
    THEN [NoEnvCall EXCEPT !.flag = flag, !.pc = "waitProbe",
                           !.found = environment[flag], !.probes = 1]
    ELSE [NoEnvCall EXCEPT !.flag = flag, !.pc = "immediate",
                           !.found = environment[flag]]

\* isAppEngine and isCloudFunction, called on slot e
Deferred(e, flag) ==
  /\ NextEnvCall(e)
  /\ envCalls' = [envCalls EXCEPT ![e] = Started(flag)]
  /\ UNCHANGED <<environment, procEnv, getEnv>>

\* isComputeEngine and isContainerEngine, called on slot e
Probing(e, flag) ==
  /\ NextEnvCall(e)
  /\ envCalls' = [envCalls EXCEPT ![e] = Started(flag)]
  /\ UNCHANGED <<environment, procEnv, getEnv>>

\* the state the predicates leave alone
authVars == <<config, authClientPromise, authClient, projectId, numRes, res, clients,
              calls, reqHeap, hdrHeap, signer>>

IsAppEngine(e) == Deferred(e, "IS_APP_ENGINE") /\ UNCHANGED authVars

IsCloudFunction(e) == Deferred(e, "IS_CLOUD_FUNCTION") /\ UNCHANGED authVars

IsComputeEngine(e) == Probing(e, "IS_COMPUTE_ENGINE") /\ UNCHANGED authVars

IsContainerEngine(e) == Probing(e, "IS_CONTAINER_ENGINE") /\ UNCHANGED authVars

\* AllDone that is content with one completed task
AllDone_Any(ec) == \E f \in Flags : ec[TaskSlot(f)].pc = "done"

\* async.parallel (lines 132-137): every task has called back
AllDone(ec) == \A f \in Flags : ec[TaskSlot(f)].pc = "done"

\* lines 137-139: the final callback of async.parallel runs in the step in
\* which the last task calls back; ec is the predicate calls after that step
Completed(ge, ec) ==
  IF ge.pc = "waiting" /\ AllDone(ec)
    THEN [ge EXCEPT !.pc = "done", !.callbacks = @ + 1, !.err = NoErr,
                    !.result = "this.environment"]
    ELSE ge

\* auth.getEnvironment(callback): async.parallel calls the four predicates
\* one after the other (lines 132-137)
GetEnvironment ==
  /\ getEnv.pc = "idle"
  /\ envCalls' = [e \in EnvSlots |->
                    IF \E f \in Flags : e = TaskSlot(f)
                      THEN Started(CHOOSE f \in Flags : e = TaskSlot(f))
                      ELSE envCalls[e]]
  /\ getEnv' = [getEnv EXCEPT !.pc = "waiting"]
  /\ UNCHANGED <<environment, procEnv, authVars>>

\* the setImmediate callback of a predicate runs (lines 172-180, 184-192,
\* 199-201, 216-218)
EnvImmediate(e) ==
  LET call == envCalls[e]
      read == call.flag \notin NetworkFlags /\ ~Memoized(environment[call.flag])
  IN
  /\ call.pc = "immediate"
  /\ environment' = IF read
                      THEN [environment EXCEPT ![call.flag] = FromProcEnv(call.flag, procEnv)]
                      ELSE environment
  /\ envCalls' = [envCalls EXCEPT ![e] =
                    [call EXCEPT !.pc = "done", !.result = environment'[call.flag],
                                 !.reads = IF read THEN call.reads + 1 ELSE call.reads]]
  /\ getEnv' = Completed(getEnv, envCalls')
  /\ UNCHANGED <<procEnv, authVars>>

\* the outcomes of the metadata request of a flag: the request to
\* metadata.google.internal fails or answers with a metadata-flavor header,
\* the gcp-metadata lookup fails or succeeds
ProbeOutcomes(flag) ==
  IF flag = "IS_COMPUTE_ENGINE"
    THEN {[failed |-> TRUE, header |-> "none"], [failed |-> FALSE, header |-> "Google"],
          [failed |-> FALSE, header |-> "other"]}
    ELSE {[failed |-> TRUE, header |-> "none"], [failed |-> FALSE, header |-> "none"]}

\* the metadata request of a predicate calls back (lines 205-209, 221-225)
ProbeCallback(e) ==
  LET call == envCalls[e] IN
  /\ call.pc = "waitProbe"
  /\ \E outcome \in ProbeOutcomes(call.flag) :
       /\ environment' = [environment EXCEPT ![call.flag] =
                            FromProbe(call.flag, outcome.failed, outcome.header)]
       /\ envCalls' = [envCalls EXCEPT ![e] =
                         [call EXCEPT !.pc = "done", !.probe = outcome, !.err = NoErr,
                                      !.result = environment'[call.flag]]]
  /\ getEnv' = Completed(getEnv, envCalls')
  /\ UNCHANGED <<procEnv, authVars>>

\* the process environment changes
SetProcessEnv ==
  /\ \E pe \in ProcEnvs : pe # procEnv /\ procEnv' = pe
  /\ UNCHANGED <<environment, envCalls, getEnv, authVars>>

(***************************************************************************)
(* The instance and its environment.                                       *)
(***************************************************************************)
\* the steps of a resolution and the delivery of its outcome
Resolve ==
  \/ \E r \in Resolutions : FromJSONCallback(r)
  \/ \E r \in Resolutions : ReadFileCallback(r)
  \/ \E r \in Resolutions : GetApplicationDefaultCallback(r)
  \/ \E c \in Calls : Deliver(c)

\* the operations on the auth client, in any interleaving; the environment
\* predicates and sign have their own specifications below. The callbacks of
\* the callers return normally, except under SpecCallback
Next ==
  \/ \E c \in Calls : GetAuthClient(c)
  \/ \E c \in Calls : GetToken(c)
  \/ \E c \in Calls : AuthorizeRequest(c)
  \/ \E c \in Calls : GetCredentials(c)
  \/ \E c \in Calls : GetProjectId(c)
  \/ \E c \in Calls : Immediate(c)
  \/ \E c \in Calls : GetAccessTokenCallback(c)
  \/ \E c \in Calls : AuthorizeCallback(c)
  \/ Resolve

Spec == Init /\ [][Next]_vars

\* the callers are getAuthClient calls
NextResolver ==
  \/ \E c \in Calls : GetAuthClient(c)
  \/ Resolve

SpecResolver == Init /\ [][NextResolver]_vars

\* every collaborator that was called calls back in the end, and a reaction
\* registered on a settled promise is run in the end
FairResolver ==
  /\ WF_vars(\E r \in Resolutions : FromJSONCallback(r))
  /\ WF_vars(\E r \in Resolutions : ReadFileCallback(r))
  /\ WF_vars(\E r \in Resolutions : GetApplicationDefaultCallback(r))
  /\ \A c \in Calls : WF_vars(Deliver(c))

SpecResolverLive == Init /\ [][NextResolver]_vars /\ FairResolver

\* the callers are getAuthClient calls whose callback may throw
NextCallback ==
  \/ \E c \in Calls : GetAuthClient(c)
  \/ \E c \in Calls : DeliverThrowing(c)
  \/ \E c \in Calls : CatchCallback(c)
  \/ Resolve

SpecCallback == Init /\ [][NextCallback]_vars

\* the callers are getToken and authorizeRequest calls
NextToken ==
  \/ \E c \in Calls : GetToken(c)
  \/ \E c \in Calls : AuthorizeRequest(c)
  \/ \E c \in Calls : GetAccessTokenCallback(c)
  \/ Resolve

SpecToken == Init /\ [][NextToken]_vars

\* the callers are getCredentials calls
NextCredentials ==
  \/ \E c \in Calls : GetCredentials(c)
  \/ \E c \in Calls : AuthorizeCallback(c)
  \/ Resolve

SpecCredentials == Init /\ [][NextCredentials]_vars

\* the callers are getProjectId and getAuthClient calls
NextProjectId ==
  \/ \E c \in Calls : GetProjectId(c)
  \/ \E c \in Calls : Immediate(c)
  \/ \E c \in Calls : GetAuthClient(c)
  \/ Resolve

SpecProjectId == Init /\ [][NextProjectId]_vars

\* a sign call, next to getAuthClient calls that resolve the client
NextSign ==
  \/ Sign
  \/ SignCredentialsCallback
  \/ SignAuthorized
  \/ SignBlobResponse
  \/ \E c \in Calls : GetAuthClient(c)
  \/ \E c \in Calls : GetAccessTokenCallback(c)
  \/ Resolve

SpecSign == Init /\ [][NextSign]_vars

\* the callers are calls of the environment predicates, while process.env
\* may change
NextEnvironment ==
  \/ \E e \in EnvCalls : IsAppEngine(e)
  \/ \E e \in EnvCalls : IsCloudFunction(e)
  \/ \E e \in EnvCalls : IsComputeEngine(e)
  \/ \E e \in EnvCalls : IsContainerEngine(e)
  \/ \E e \in EnvCalls : EnvImmediate(e)
  \/ \E e \in EnvCalls : ProbeCallback(e)
  \/ SetProcessEnv

\* the instance is constructed without options: no predicate reads config
InitEnvironment == Init /\ NumSet(config) = 0

SpecEnvironment == InitEnvironment /\ [][NextEnvironment]_vars

\* a getEnvironment call, next to an isComputeEngine call of another caller,
\* while process.env may change
NextGetEnvironment ==
  \/ GetEnvironment
  \/ IsComputeEngine(1)
  \/ \E e \in EnvSlots : EnvImmediate(e)
  \/ \E e \in EnvSlots : ProbeCallback(e)
  \/ SetProcessEnv

SpecGetEnvironment == InitEnvironment /\ [][NextGetEnvironment]_vars

(***************************************************************************)
(* Properties.                                                             *)
(***************************************************************************)
Done(c) == calls[c].pc = "done"

Succeeded(c) == Done(c) /\ calls[c].err = NoErr

\* the resolution attempts whose executor has run
Constructions == { r \in Resolutions : res[r].constructed }

\* getAuthClient call c was made before the promise it found had settled
Early(c) == calls[c].op = "getAuthClient" /\ calls[c].priorState \in {"none", "pending"}

\* C1: getAuthClient calls issued before the first resolution settles all
\* receive the same outcome (the same client reference, or the same error),
\* and client construction is started at most once.
C1_SingleFlight ==
  /\ \A c, d \in Calls :
       (Early(c) /\ Early(d))
       => /\ calls[c].res = calls[d].res
          /\ (Done(c) /\ Done(d)) =>
               (calls[c].err = calls[d].err /\ calls[c].client = calls[d].client)
  /\ Cardinality(Constructions) <= 1

\* two concurrent getAuthClient calls, the second joining the resolution in
\* flight, both handed the client
C1_Witness ==
  \E c, d \in Calls :
    /\ calls[c].op = "getAuthClient" /\ calls[d].op = "getAuthClient"
    /\ calls[c].priorState = "none" /\ calls[d].priorState = "pending"
    /\ Succeeded(c) /\ Succeeded(d) /\ calls[c].client # 0

\* C2: a getAuthClient call made after a resolution has failed starts a new
\* resolution attempt.
C2_FailureNotCached ==
  \A c \in Calls :
    (calls[c].op = "getAuthClient" /\ calls[c].priorState = "rejected") => calls[c].fresh

\* C3: once a resolution has succeeded, a later getAuthClient call never
\* starts client construction and is handed the very client that was
\* resolved.
C3_CachedAfterSuccess ==
  \A c \in Calls :
    (calls[c].op = "getAuthClient" /\ calls[c].priorState = "fulfilled")
    => /\ ~calls[c].fresh
       /\ Cardinality(Constructions) = 1
       /\ Done(c) => (calls[c].err = NoErr /\ calls[c].client # 0
                                          /\ calls[c].client = authClient)

\* a getAuthClient call made after the success has completed
C3_Witness ==
  \E c \in Calls :
    /\ calls[c].op = "getAuthClient" /\ calls[c].priorState = "fulfilled"
    /\ Done(c) /\ calls[c].client # 0

\* config.scopes is absent or empty
NoScopesConfigured == ~config.scopes.def \/ config.scopes.list = <<>>

\* C4: when config.scopes is absent or empty and the client obtained reports
\* that scoping is required, the resolution fails with code MISSING_SCOPE and
\* no caller is ever handed a client, whatever the credential source.
C4_MissingScope ==
  \A r \in Resolutions :
    (NoScopesConfigured /\ clients[r].made /\ clients[r].scopedRequired)
    => /\ res[r].state = "rejected"
       /\ res[r].err.code = "MISSING_SCOPE"
       /\ authClient # r
       /\ \A c \in Calls :
            calls[c].res = r
            => /\ calls[c].client = 0
               /\ Done(c) => calls[c].err.code = "MISSING_SCOPE"

\* a client built from a key file that is not JSON requires scoping, scopes
\* is the empty list, and a caller has been given the error
C4_Witness ==
  \E r \in Resolutions, c \in Calls :
    /\ config.scopes = [def |-> TRUE, list |-> <<>>]
    /\ clients[r].made /\ clients[r].jwt /\ clients[r].scopedRequired
    /\ Done(c) /\ calls[c].res = r /\ calls[c].err.code = "MISSING_SCOPE"

\* C5: a resolution uses exactly one credential source: the inline
\* credentials when present, else the key file when present, else ambient
\* default discovery; the sources of lower precedence are never consulted.
C5_SourcePrecedence ==
  \A r \in Constructions :
    IF config.credentials # UNDEF
      THEN res[r].externals = {"fromJSON(credentials)"}
    ELSE IF config.keyFilename # UNDEF \/ config.keyFile # UNDEF
      THEN /\ "readFile" \in res[r].externals
           /\ res[r].externals \subseteq {"readFile", "fromJSON(file)", "JWT"}
    ELSE res[r].externals = {"getApplicationDefault"}

\* credentials and a key file are both configured and the resolution is over
C5_Witness ==
  \E r \in Constructions :
    /\ config.credentials # UNDEF /\ config.keyFile # UNDEF
    /\ res[r].state = "fulfilled"

\* C6: with a static token configured, getToken returns that token and never
\* goes through getAuthClient.
C6_StaticToken ==
  \A c \in Calls :
    (calls[c].op = "getToken" /\ config.token # UNDEF)
    => /\ calls[c].resolveCount = 0
       /\ Done(c) => (calls[c].err = NoErr /\ calls[c].token = config.token)

\* the caller's request options and headers object as they were passed in
InputReq(c) ==
  [live |-> TRUE, uri |-> calls[c].input.uri,
   headers |-> IF calls[c].input.hasHeaders THEN InRef(c) ELSE 0]

InputHdr(c) ==
  IF calls[c].input.hasHeaders
    THEN [live |-> TRUE, a |-> calls[c].input.a, Authorization |-> calls[c].input.Authorization]
    ELSE NoHdr

\* C7: authorizeRequest leaves the caller's request options and headers
\* object as they were; what it returns is a new object, with a new headers
\* object holding the input headers plus Authorization = "Bearer " + token,
\* every other field and header unchanged.
C7_NoMutation ==
  \A c \in Calls :
    calls[c].op = "authorizeRequest"
    => /\ reqHeap[InRef(c)] = InputReq(c)
       /\ hdrHeap[InRef(c)] = InputHdr(c)
       /\ Succeeded(c) =>
            LET out == reqHeap[calls[c].out] IN
            /\ calls[c].out # InRef(c)
            /\ out.live
            /\ out.uri = calls[c].input.uri
            /\ out.headers # 0 /\ out.headers # InRef(c)
            /\ hdrHeap[out.headers].live
            /\ hdrHeap[out.headers].Authorization = "Bearer " \o calls[c].usedToken
            /\ hdrHeap[out.headers].a = calls[c].input.a

\* an authorizeRequest whose input headers already carried an Authorization
\* header has returned its authorized options
C7_Witness ==
  \E c \in Calls :
    /\ calls[c].op = "authorizeRequest" /\ Succeeded(c)
    /\ calls[c].input.hasHeaders /\ calls[c].input.Authorization = "old"
    /\ calls[c].out # 0

\* C8: after a successful resolution this.projectId is config.projectId when
\* configured, else the project ID reported by client creation, else the
\* client's own.
C8_ProjectIdPrecedence ==
  authClient # 0 =>
    projectId = IF config.projectId # UNDEF THEN config.projectId
                ELSE IF res[authClient].reported # UNDEF THEN res[authClient].reported
                ELSE clients[authClient].projectId

\* C9: authClient and projectId, once set, are never changed or cleared, and
\* the credentials record handed out, once derived, never changes.
C9_SetOnce ==
  [][ /\ authClient # 0 => authClient' = authClient
      /\ projectId # UNDEF => projectId' = projectId
      /\ \A c, d \in Calls :
           ( /\ calls[c].op = "getCredentials" /\ Succeeded(c)
             /\ calls'[d].op = "getCredentials" /\ calls'[d].pc = "done"
             /\ calls'[d].err = NoErr )
           => calls'[d].creds = calls[c].creds ]_vars

\* both fields are set and two getCredentials calls have derived the
\* record, one of them by authorizing the client
C9_Witness ==
  /\ authClient # 0 /\ projectId # UNDEF
  /\ \E c, d \in Calls :
       /\ calls[c].op = "getCredentials" /\ Succeeded(c) /\ calls[c].authorizeCount = 1
       /\ calls[d].op = "getCredentials" /\ Succeeded(d) /\ calls[d].authorizeCount = 0

\* C10: one getCredentials performs at most one authorize step.
C10_SingleAuthorize ==
  \A c \in Calls : calls[c].authorizeCount <= 1

\* C11: when the resolved client has neither both an email and a key nor an
\* authorize method, getCredentials ends with the error 'Could not get
\* credentials without a JSON, pem, or p12 keyfile.', hands out no record
\* and never calls authorize.
C11_CredentialsUnavailable ==
  \A c \in Calls :
    ( /\ calls[c].op = "getCredentials" /\ calls[c].client # 0
      /\ (clients[calls[c].client].email = UNDEF \/ clients[calls[c].client].key = UNDEF)
      /\ ~clients[calls[c].client].hasAuthorize )
    => /\ Done(c)
       /\ calls[c].err.kind = "Could not get credentials without a JSON, pem, or p12 keyfile."
       /\ calls[c].creds = NoCreds
       /\ calls[c].authorizeCount = 0

\* a getCredentials call was handed a client from ambient discovery that has
\* no email, no key and no authorize method
C11_Witness ==
  \E c \in Calls :
    /\ calls[c].op = "getCredentials" /\ Done(c) /\ calls[c].client # 0
    /\ res[calls[c].res].externals = {"getApplicationDefault"}
    /\ clients[calls[c].client].email = UNDEF
    /\ ~clients[calls[c].client].hasAuthorize
    /\ calls[c].err # NoErr

\* C12: sign takes the local path exactly when the credentials record has a
\* private key; the local path authorizes no request and sends none, and
\* once a path is taken the other one is never tried, also when the path
\* taken fails.
C12_BranchFixed ==
  signer.path # "none"
  => /\ (signer.path = "local") <=> (signer.creds.private_key # UNDEF)
     /\ signer.path = "local"
          => /\ signer.pc = "done" /\ signer.localSigns = 1
             /\ signer.authorizations = 0 /\ signer.requests = 0
             /\ signer.call = 0 /\ signer.sent = 0
     /\ signer.path = "remote" => signer.localSigns = 0

\* sign("hello") with the record {client_email: "e", private_key: "k"} has
\* returned a signature
C12_Witness ==
  /\ signer.pc = "done" /\ signer.data = "hello"
  /\ signer.creds = [client_email |-> "e", private_key |-> "k"]
  /\ signer.err = NoErr /\ signer.signature # UNDEF

\* C13: sign signs neither locally nor remotely before getCredentials has
\* called back, and when getCredentials fails sign returns that very error
\* and runs neither path.
C13_CredentialsFirst ==
  /\ signer.pc \in {"idle", "waitCredentials"}
       => /\ signer.path = "none" /\ signer.signature = UNDEF
          /\ signer.localSigns = 0 /\ signer.authorizations = 0 /\ signer.requests = 0
  /\ signer.credsErr # NoErr
       => /\ signer.pc = "done" /\ signer.err = signer.credsErr
          /\ signer.path = "none" /\ signer.signature = UNDEF
          /\ signer.localSigns = 0 /\ signer.authorizations = 0 /\ signer.requests = 0

\* getCredentials has failed and sign has returned
C13_Witness ==
  signer.pc = "done" /\ signer.credsErr # NoErr /\ signer.err # NoErr

\* C14: on the remote path sign fails with MissingProjectId when the
\* instance has no project ID and with MissingClientEmail when the record
\* has no client email; in both cases no request authorization is started
\* and no signBlob request is sent.
C14_RemotePreconditions ==
  (signer.path = "remote" /\ (signer.pid = UNDEF \/ signer.creds.client_email = UNDEF))
  => /\ signer.pc = "done"
     /\ signer.err.kind \in {"MissingProjectId", "MissingClientEmail"}
     /\ signer.err.kind = "MissingProjectId" => signer.pid = UNDEF
     /\ signer.err.kind = "MissingClientEmail" => signer.creds.client_email = UNDEF
     /\ signer.signature = UNDEF
     /\ signer.authorizations = 0 /\ signer.requests = 0
     /\ signer.call = 0 /\ signer.sent = 0

\* the client is resolved and the project ID known, the record has neither
\* key nor email, and sign has failed
C14_Witness ==
  /\ signer.pc = "done" /\ signer.path = "remote"
  /\ signer.pid # UNDEF /\ signer.creds.client_email = UNDEF
  /\ signer.err.kind = "MissingClientEmail"

\* C15: the signBlob request is sent only once authorizeRequest has handed
\* back the authorized options, and it is sent with exactly those options;
\* when authorizeRequest fails, sign returns that error and sends nothing;
\* on a 2xx response sign returns the signature field of the body.
C15_AuthorizedRequest ==
  /\ signer.requests > 0
       => /\ signer.requests = 1 /\ signer.call # 0
          /\ calls[signer.call].pc = "done" /\ calls[signer.call].err = NoErr
          /\ signer.sent # 0 /\ signer.sent = calls[signer.call].out
          /\ reqHeap[signer.sent].live
          /\ reqHeap[signer.sent].uri = calls[signer.call].input.uri
          /\ reqHeap[signer.sent].headers # 0
          /\ hdrHeap[reqHeap[signer.sent].headers].Authorization
               = "Bearer " \o calls[signer.call].usedToken
  /\ ( /\ signer.call # 0 /\ signer.pc # "waitAuthorize"
       /\ calls[signer.call].err # NoErr )
       => /\ signer.pc = "done" /\ signer.err = calls[signer.call].err
          /\ signer.requests = 0 /\ signer.sent = 0 /\ signer.signature = UNDEF
  /\ ( /\ signer.pc = "done"
       /\ signer.response.status >= 200 /\ signer.response.status < 300 )
       => signer.err = NoErr /\ signer.signature = signer.response.signature

\* sign without a private key, project ID and client email known, has
\* returned the signature of the signBlob response
C15_Witness ==
  /\ signer.pc = "done" /\ signer.path = "remote" /\ signer.requests = 1
  /\ signer.creds.client_email = "e" /\ signer.pid # UNDEF
  /\ signer.err = NoErr /\ signer.signature = "sig"

\* C16: on a non-2xx signBlob response sign fails and returns no signature;
\* the error has the message and every extra field of the body's error
\* object, or, when the body is a string, that string as its message.
C16_RemoteSigningError ==
  ( /\ signer.pc = "done" /\ signer.response.shape # "none"
    /\ (signer.response.status < 200 \/ signer.response.status >= 300) )
  => /\ signer.err # NoErr
     /\ signer.signature = UNDEF
     /\ signer.err.kind = signer.response.message
     /\ signer.response.shape = "object"
          => /\ signer.err.code = signer.response.code
             /\ signer.extra = signer.response.property

\* the endpoint has answered 400 with the error object {message: "bad",
\* code: 7} and sign has failed with it
C16_Witness ==
  /\ signer.pc = "done" /\ signer.response.status = 400
  /\ signer.response.shape = "object"
  /\ signer.err.kind = "bad" /\ signer.err.code = "7"

\* C17: when client resolution or the client's getAccessToken fails, getToken
\* and authorizeRequest call back with that very error, and with no token
\* and no request options.
C17_ErrorsUnchanged ==
  \A c \in Calls :
    (calls[c].op \in {"getToken", "authorizeRequest"} /\ Done(c))
    => /\ res[calls[c].res].state = "rejected"
            => /\ calls[c].err # NoErr /\ calls[c].err = res[calls[c].res].err
               /\ calls[c].tokenCount = 0
               /\ calls[c].token = UNDEF /\ calls[c].out = 0
               /\ ~reqHeap[OutRef(c)].live
       /\ calls[c].tokenErr # NoErr
            => /\ calls[c].err = calls[c].tokenErr
               /\ calls[c].token = UNDEF /\ calls[c].out = 0
               /\ ~reqHeap[OutRef(c)].live

\* an authorizeRequest and a getToken on the resolved client, both ended by
\* a failed token fetch
C17_Witness ==
  \E c, d \in Calls :
    /\ calls[c].op = "authorizeRequest" /\ Done(c) /\ calls[c].tokenErr # NoErr
    /\ calls[d].op = "getToken" /\ Done(d) /\ calls[d].tokenErr # NoErr
    /\ calls[c].err # NoErr /\ calls[d].err # NoErr

\* C18: when the key file cannot be read, or ambient default discovery
\* reports an error, the resolution fails with that very error: no client is
\* constructed, none is cached or handed to a caller, every caller receives
\* the error, and no JWT client is built for the unreadable file.
C18_SourceErrors ==
  \A r \in Resolutions :
    res[r].sourceErr.kind \in {"ENOENT", "getApplicationDefault failed"}
    => /\ res[r].state = "rejected" /\ res[r].err = res[r].sourceErr
       /\ ~clients[r].made /\ authClient # r /\ res[r].client = 0
       /\ "JWT" \notin res[r].externals /\ "fromJSON(file)" \notin res[r].externals
       /\ \A c \in Calls :
            calls[c].res = r
            => /\ calls[c].client = 0
               /\ Done(c) => calls[c].err = res[r].sourceErr

\* a getAuthClient caller has been given the read error of the key file
C18_Witness ==
  \E r \in Resolutions, c \in Calls :
    /\ res[r].sourceErr.kind = "ENOENT" /\ res[r].path # UNDEF
    /\ calls[c].op = "getAuthClient" /\ calls[c].res = r /\ Done(c)
    /\ calls[c].err = res[r].sourceErr

C19_Memoized ==
  \A e \in EnvCalls :
    (envCalls[e].flag \in Flags /\ envCalls[e].found # "undefined")
    => /\ envCalls[e].probes = 0 /\ envCalls[e].reads = 0
       /\ envCalls[e].pc = "done" => envCalls[e].result = envCalls[e].found

\* C21: whenever a resolution has succeeded, whatever its credential source,
\* the client it resolved to, and so the client handed to each caller, has
\* its scopes field equal to config.scopes.
C21_ScopesAttached ==
  /\ \A r \in Resolutions :
       res[r].state = "fulfilled"
       => res[r].client # 0 /\ clients[res[r].client].scopes = config.scopes
  /\ \A c \in Calls :
       (calls[c].op = "getAuthClient" /\ Succeeded(c))
       => clients[calls[c].client].scopes = config.scopes

\* keyFilename "a.json" with scopes ["s"]: the file held JSON and the caller
\* has the client, scoped to ["s"]
C21_Witness ==
  \E c \in Calls :
    /\ config.keyFilename = "a.json" /\ config.scopes = [def |-> TRUE, list |-> <<"s">>]
    /\ calls[c].op = "getAuthClient" /\ Succeeded(c)
    /\ res[calls[c].res].contents = "json"
    /\ clients[calls[c].client].scopes.list = <<"s">>

\* C22: a getCredentials call made after a getCredentials call has
\* succeeded does not go through getAuthClient and calls authorize no more:
\* it is handed the record of the earlier call.
C22_CredentialsCached ==
  [][ \A c, d \in Calls :
        ( /\ calls[c].op = "getCredentials" /\ Succeeded(c)
          /\ calls[d].pc = "idle" /\ calls'[d].op = "getCredentials" )
        => /\ calls'[d].resolveCount = 0
           /\ calls'[d].authorizeCount = 0
           /\ calls'[d].pc \in {"immediate", "done"}
           /\ calls'[d].pc = "done" => calls'[d].creds = calls[c].creds ]_vars

\* C23: a getProjectId call that finds a project ID set on the instance
\* returns that value and does not go through getAuthClient; a call that
\* finds none goes through getAuthClient once and then returns the
\* instance's project ID, or the error of the resolution.
C23_GetProjectId ==
  \A c \in Calls :
    calls[c].op = "getProjectId"
    => IF calls[c].found # UNDEF
         THEN /\ calls[c].resolveCount = 0 /\ calls[c].res = 0
              /\ Done(c) => (calls[c].err = NoErr /\ calls[c].pid = calls[c].found)
         ELSE /\ calls[c].resolveCount = 1 /\ calls[c].res # 0
              /\ Done(c) =>
                   IF res[calls[c].res].state = "rejected"
                     THEN calls[c].err = res[calls[c].res].err /\ calls[c].pid = UNDEF
                     ELSE /\ res[calls[c].res].state = "fulfilled"
                          /\ calls[c].err = NoErr /\ calls[c].pid = projectId

\* a first getProjectId went through the resolution, which set the project
\* ID; a second one found it and returned it
C23_Witness ==
  \E c, d \in Calls :
    /\ calls[c].op = "getProjectId" /\ calls[c].found = UNDEF /\ Succeeded(c)
    /\ calls[d].op = "getProjectId" /\ calls[d].found # UNDEF /\ Succeeded(d)
    /\ calls[d].pid = calls[c].pid /\ calls[d].resolveCount = 0

\* C24: getEnvironment calls all four environment predicates, and its
\* callback runs exactly once, only after all four have called back, with no
\* error and with this.environment, every flag of which is then defined.
C24_GetEnvironment ==
  /\ getEnv.pc # "idle"
     => \A f \in Flags : envCalls[TaskSlot(f)].flag = f /\ envCalls[TaskSlot(f)].pc # "idle"
  /\ getEnv.callbacks <= 1
  /\ getEnv.callbacks = 1 <=> \A f \in Flags : envCalls[TaskSlot(f)].pc = "done"
  /\ getEnv.callbacks = 1
     => /\ getEnv.err = NoErr /\ getEnv.result = "this.environment"
        /\ \A f \in Flags : environment[f] # "undefined"

\* getEnvironment has called back after a failed compute engine request of
\* its own and a container engine lookup that succeeded
C24_Witness ==
  /\ getEnv.callbacks = 1
  /\ envCalls[TaskSlot("IS_COMPUTE_ENGINE")].probes = 1
  /\ envCalls[TaskSlot("IS_COMPUTE_ENGINE")].probe.failed
  /\ envCalls[TaskSlot("IS_CONTAINER_ENGINE")].probes = 1
  /\ environment["IS_CONTAINER_ENGINE"] = "true"

\* C25: every failure the library raises itself (missing scope, credentials
\* unavailable, missing project ID, missing client email) carries a code
\* field that identifies its kind.
C25_CodedErrors ==
  LET own == {"Scopes are required for this request.",
              "Could not get credentials without a JSON, pem, or p12 keyfile.",
              "MissingProjectId", "MissingClientEmail"}
  IN /\ \A c \in Calls : calls[c].err.kind \in own => calls[c].err.code # UNDEF
     /\ \A r \in Resolutions : res[r].err.kind \in own => res[r].err.code # UNDEF
     /\ signer.err.kind \in own => signer.err.code # UNDEF

\* C27: no step of getAuthClient, getToken, authorizeRequest, getCredentials
\* or getProjectId, nor of any of their callbacks, changes the configuration
\* the instance was constructed with.
C27_ConfigReadOnly == [][config' = config]_vars

\* a getProjectId call has returned, through setImmediate, a project ID that
\* the configuration does not hold, and the client carries config.scopes
C27_Witness ==
  /\ config.projectId = UNDEF /\ config.scopes.def
  /\ authClient # 0 /\ clients[authClient].scopes = config.scopes
  /\ \E c \in Calls : /\ calls[c].op = "getProjectId" /\ calls[c].pc = "done"
                       /\ calls[c].found # UNDEF /\ calls[c].pid = calls[c].found

\* C28: however calls of isComputeEngine, or of isContainerEngine, made
\* before the flag is defined interleave, at most one metadata request is
\* made for the flag and the flag is written at most once.
C28_SingleFlight ==
  \A f \in NetworkFlags :
    LET probing == {e \in EnvSlots : envCalls[e].flag = f /\ envCalls[e].probes > 0}
        written == {e \in probing : envCalls[e].pc = "done"}
    IN Cardinality(probing) <= 1 /\ Cardinality(written) <= 1

\* C29: when the contents of the key file parse as JSON, no JWT client is
\* built from the raw key: the client of the resolution, if there is one, is
\* the client fromJSON made, and a failure of fromJSON fails the resolution
\* with that failure.
C29_JSONPathOnly ==
  \A r \in Constructions :
    res[r].contents = "json"
    => /\ "JWT" \notin res[r].externals
       /\ clients[r].made => ~clients[r].jwt
       /\ (res[r].sourceErr # NoErr /\ res[r].stage = "done")
          => res[r].state = "rejected" /\ res[r].err = res[r].sourceErr

\* C30: when the metadata request of isComputeEngine or isContainerEngine
\* calls back, the predicate passes no error to its callback, and the value
\* it records in the flag and reports is: for isComputeEngine, true exactly
\* when the request did not fail and the metadata-flavor header is 'Google';
\* for isContainerEngine, true exactly when the lookup did not fail. A failed
\* request is recorded and reported as false.
C30_ProbeOutcome ==
  [][\A e \in EnvSlots :
       (envCalls[e].pc = "waitProbe" /\ envCalls'[e].pc = "done")
       => LET call == envCalls'[e]
              expected == IF call.flag = "IS_COMPUTE_ENGINE"
                            THEN IF ~call.probe.failed /\ call.probe.header = "Google"
                                   THEN "true" ELSE "false"
                            ELSE IF ~call.probe.failed THEN "true" ELSE "false"
          IN /\ call.flag \in NetworkFlags
             /\ call.err = NoErr
             /\ environment'[call.flag] = expected
             /\ call.result = expected
             /\ call.probe.failed => call.result = "false"]_vars

\* an isComputeEngine call has reported false for an answer without the
\* Google header, and an isContainerEngine call false for a failed lookup
C30_Witness ==
  \E e, d \in EnvCalls :
    /\ envCalls[e].flag = "IS_COMPUTE_ENGINE" /\ envCalls[e].pc = "done"
    /\ envCalls[e].probes = 1 /\ ~envCalls[e].probe.failed
    /\ envCalls[e].probe.header = "other" /\ envCalls[e].result = "false"
    /\ envCalls[d].flag = "IS_CONTAINER_ENGINE" /\ envCalls[d].pc = "done"
    /\ envCalls[d].probes = 1 /\ envCalls[d].probe.failed /\ envCalls[d].result = "false"

\* C31: with no static token configured, a getToken call that is handed the
\* resolved client asks it for a token exactly once, and a call that is not
\* asks no one: n calls that went through cause n getAccessToken requests,
\* all on the client stored in authClient, and every token handed out was
\* requested by the call that hands it out.
C31_FreshToken ==
  \A c \in Calls :
    (calls[c].op = "getToken" /\ config.token = UNDEF)
    => /\ calls[c].tokenCount = IF calls[c].client # 0 THEN 1 ELSE 0
       /\ calls[c].client # 0 => calls[c].client = authClient
       /\ Succeeded(c) => calls[c].tokenCount = 1 /\ calls[c].token # UNDEF

\* two getToken calls have each been given a token by the same client
C31_Witness ==
  \E c, d \in Calls :
    /\ c # d /\ config.token = UNDEF
    /\ calls[c].op = "getToken" /\ calls[d].op = "getToken"
    /\ Succeeded(c) /\ Succeeded(d)
    /\ calls[c].client = calls[d].client /\ calls[c].client # 0
    /\ calls[c].tokenCount = 1 /\ calls[d].tokenCount = 1

\* C32: when getCredentials is handed a client that has both an email and a
\* key it returns {client_email: the email, private_key: the key} at once and
\* does not call authorize; authorize is called only for a client that lacks
\* the email or the key, and when authorize fails the call ends with that
\* error, without a further authorize call or resolution.
C32_DirectCredentials ==
  [][\A c \in Calls :
       calls'[c].op = "getCredentials"
       => LET before == calls[c]
              after  == calls'[c]
              has    == /\ after.client # 0
                        /\ Truthy(clients[after.client].email)
                        /\ Truthy(clients[after.client].key)
          IN /\ after.authorizeCount > before.authorizeCount => ~has
             /\ (before.pc = "waitClient" /\ after.pc # "waitClient" /\ has)
                => /\ after.pc = "done" /\ after.err = NoErr
                   /\ after.creds = [client_email |-> clients[after.client].email,
                                     private_key  |-> clients[after.client].key]
                   /\ after.authorizeCount = before.authorizeCount
             /\ (before.pc = "waitAuthorize" /\ after.pc = "done")
                => /\ after.err = Err("authorize failed", UNDEF, c)
                   /\ after.creds = NoCreds
                   /\ after.authorizeCount = before.authorizeCount
                   /\ after.resolveCount = before.resolveCount]_vars

\* a getCredentials call has returned the email and key of a client that
\* carried both, and authorize, which the client has, was not called
C32_Witness ==
  \E c \in Calls :
    /\ calls[c].op = "getCredentials" /\ Succeeded(c)
    /\ calls[c].authorizeCount = 0
    /\ clients[calls[c].client].hasAuthorize
    /\ calls[c].creds = [client_email |-> "svc@x", private_key |-> "pkey"]

\* C33: the callback of a getAuthClient call is run exactly once, whether
\* the resolution succeeds or fails, and also when the callback throws while
\* it is given the client.
C33_CallbackOnce ==
  \A c \in Calls :
    calls[c].op = "getAuthClient"
    => /\ calls[c].callbacks <= 1
       /\ Done(c) => calls[c].callbacks = 1

\* C34: getAuthClient returns before its callback is run, whatever the state
\* of the instance (no promise yet, a resolution in flight, a settled
\* promise): the step that makes the call leaves the call waiting on the
\* promise with no callback run, and the callback runs in a later step.
C34_NeverSynchronous ==
  [][\A c \in Calls :
       (calls[c].pc = "idle" /\ calls'[c].op = "getAuthClient")
       => /\ calls'[c].pc = "waitClient"
          /\ calls'[c].callbacks = 0
          /\ calls'[c].client = 0 /\ calls'[c].err = NoErr]_vars

\* a getAuthClient call made when the promise was already fulfilled has
\* returned and its callback has not run yet
C34_Witness ==
  \E c \in Calls :
    /\ calls[c].op = "getAuthClient" /\ calls[c].priorState = "fulfilled"
    /\ calls[c].pc = "waitClient" /\ calls[c].callbacks = 0
    /\ res[calls[c].res].state = "fulfilled" /\ authClient # 0

\* C35: whenever this.authClient is set, the memoized promise exists, has
\* not been rejected and, once settled, holds that very client; and a client
\* handed to any caller is the one stored in this.authClient.
C35_ClientAgrees ==
  /\ authClient # 0
     => /\ authClientPromise # 0
        /\ res[authClientPromise].state # "rejected"
        /\ Settled(res[authClientPromise]) => res[authClientPromise].client = authClient
  /\ \A c \in Calls : calls[c].client # 0 => calls[c].client = authClient

\* the client is stored and callers of two different operations have been
\* handed it
C35_Witness ==
  \E c, d \in Calls :
    /\ authClient # 0 /\ res[authClientPromise].state = "fulfilled"
    /\ calls[c].op = "getAuthClient" /\ Succeeded(c) /\ calls[c].client = authClient
    /\ calls[d].op = "getCredentials" /\ Succeeded(d) /\ calls[d].client = authClient

\* C36: a resolution that fails, for whatever reason (an error of the
\* credential source, an unreadable key file, MISSING_SCOPE), leaves the
\* cached state as it was: the step that rejects the promise changes neither
\* this.authClient, which is still null, nor this.projectId.
C36_FailureLeavesState ==
  [][\A r \in Resolutions :
       (res[r].state # "rejected" /\ res'[r].state = "rejected")
       => /\ authClient' = authClient /\ authClient' = 0
          /\ projectId' = projectId]_vars

\* a resolution has failed with MISSING_SCOPE for a client that came with a
\* project ID, and neither the client nor the project ID has been stored
C36_Witness ==
  \E r \in Resolutions :
    /\ res[r].state = "rejected" /\ res[r].err.code = "MISSING_SCOPE"
    /\ clients[r].made /\ (clients[r].projectId # UNDEF \/ res[r].reported # UNDEF)
    /\ authClient = 0 /\ projectId = UNDEF

\* C37: under any interleaving of getToken, authorizeRequest, getProjectId,
\* getCredentials and getAuthClient calls there is one memoized promise:
\* every call that needs the client waits on it, client construction is
\* started exactly once, and every call handed a client is handed the same.
C37_SharedResolution ==
  /\ numRes <= 1
  /\ \A c \in Calls :
       calls[c].res # 0
       => calls[c].res = authClientPromise /\ Cardinality(Constructions) = 1
  /\ \A c, d \in Calls :
       (calls[c].client # 0 /\ calls[d].client # 0) => calls[c].client = calls[d].client

\* a getToken call and a getCredentials call have both been handed the
\* client of the one construction
C37_Witness ==
  \E c, d \in Calls :
    /\ calls[c].op = "getToken" /\ calls[d].op = "getCredentials"
    /\ calls[c].client # 0 /\ calls[c].client = calls[d].client
    /\ Cardinality(Constructions) = 1

\* C38: provided the key file read, fromJSON and default discovery call back
\* in the end, every getAuthClient call, under every configuration, in the
\* end has its callback run, with a client or with an error.
C38_CallbackInTheEnd ==
  \A c \in Calls :
    (calls[c].op = "getAuthClient")
    ~> (Done(c) /\ calls[c].callbacks >= 1 /\ (calls[c].client # 0 \/ calls[c].err # NoErr))

\* one getAuthClient call has been called back with an error of scoping and
\* another, on the same promise, as well
C38_Witness ==
  \E c, d \in Calls :
    /\ c # d /\ calls[c].op = "getAuthClient" /\ calls[d].op = "getAuthClient"
    /\ Done(c) /\ Done(d)
    /\ calls[c].err.code = "MISSING_SCOPE" /\ calls[d].err.code = "MISSING_SCOPE"

====
